---- MODULE Spec2Model ----
(***************************************************************************)
(* Asset synchronisation of sharetribe-cli: `assets pull` and `assets push` *)
(* (packages/sharetribe-cli/src/commands/assets/index.ts) together with the *)
(* SDK function pushAssets that builds the multipart push transaction.      *)
(*                                                                          *)
(* The tracked directory, its metadata file .flex-cli/asset-meta.edn, the   *)
(* temporary archive and the Build API server are the state.  One CLI       *)
(* invocation runs at a time; it advances in the steps at which the code    *)
(* awaits the network or touches the disk, and may fail or be killed at     *)
(* each of them.  The operator and other API clients act between            *)
(* invocations.                                                             *)
(***************************************************************************)
EXTENDS Integers, Sequences, FiniteSets, TLC

(***************************************************************************)
(* Bounds                                                                   *)
(***************************************************************************)
MaxVersion == 2      \* the server creates at most this many asset versions
MaxEnv == 2          \* actions of the operator and of other API clients
MaxOps == 2          \* operations handed to the SDK pushAssets (SpecSdk)

\* the asset paths in use, in the order a directory scan yields them
AllPaths ==
  <<".DS_Store/y.png", ".flex-cli/asset-meta.edn", "a.json", "C.JSON", "img/.DS_Store",
    "img/b.png", "img/d.png", "sub/.flex-cli/x.json">>
\* the paths of asset files the operator and the server work with
AssetPaths == {"a.json", "C.JSON", "img/b.png", "img/d.png"}
\* the paths the operator and other API clients change between invocations
EditPaths == {"a.json", "img/b.png"}
\* the file contents in use: a JSON text and bytes that are no JSON text
Contents == {"{}", "PNG"}

Paths == {AllPaths[i] : i \in 1..Len(AllPaths)}

(***************************************************************************)
(* JavaScript values: undefined, strings, numbers and Buffers               *)
(***************************************************************************)
Undefined == [t |-> "undefined", s |-> "", n |-> 0]
Str(s) == [t |-> "string", s |-> s, n |-> 0]
Num(n) == [t |-> "number", s |-> "", n |-> n]
Buf(s) == [t |-> "buffer", s |-> s, n |-> 0]

\* JavaScript truthiness: undefined, "" and 0 are falsy; every Buffer is truthy
Truthy(v) ==
  CASE v.t = "undefined" -> FALSE
    [] v.t = "string" -> v.s # ""
    [] v.t = "number" -> v.n # 0
    [] OTHER -> TRUE

Digit(d) == SubSeq("0123456789", d + 1, d + 1)

RECURSIVE NumToStr(_)
NumToStr(n) == IF n < 10 THEN Digit(n) ELSE NumToStr(n \div 10) \o Digit(n % 10)

\* String(v) of JavaScript
StringOf(v) ==
  CASE v.t = "undefined" -> "undefined"
    [] v.t = "number" -> NumToStr(v.n)
    [] OTHER -> v.s

startsWith(s, pre) == Len(s) >= Len(pre) /\ SubSeq(s, 1, Len(pre)) = pre
endsWith(s, suf) == Len(s) >= Len(suf) /\ SubSeq(s, Len(s) - Len(suf) + 1, Len(s)) = suf

LowerChar(c) ==
  CASE c = "J" -> "j" [] c = "S" -> "s" [] c = "O" -> "o" [] c = "N" -> "n"
    [] c = "C" -> "c" [] c = "P" -> "p" [] c = "G" -> "g" [] c = "D" -> "d"
    [] OTHER -> c

RECURSIVE toLowerCase(_)
toLowerCase(s) ==
  IF s = "" THEN "" ELSE LowerChar(SubSeq(s, 1, 1)) \o toLowerCase(SubSeq(s, 2, Len(s)))

\* JSON.parse succeeds on these texts of AllContents and throws on the others
JsonParses(s) == s \in {"{}", "[1]", "null"}

\* the entry names of a relative path, split at "/"
RECURSIVE PathEntries(_)
PathEntries(p) ==
  IF \E i \in 1..Len(p) : SubSeq(p, i, i) = "/"
  THEN LET i == CHOOSE j \in 1..Len(p) :
                  SubSeq(p, j, j) = "/" /\ \A k \in 1..(j - 1) : SubSeq(p, k, k) # "/"
       IN <<SubSeq(p, 1, i - 1)>> \o PathEntries(SubSeq(p, i + 1, Len(p)))
  ELSE <<p>>

RECURSIVE SeqFromTo(_, _, _)
\* the sequence <<f[lo], ..., f[hi]>> filtered by membership in S
SeqFromTo(S, lo, hi) ==
  IF lo > hi THEN <<>>
  ELSE (IF AllPaths[lo] \in S THEN <<AllPaths[lo]>> ELSE <<>>) \o SeqFromTo(S, lo + 1, hi)

\* the paths of S in directory order
InOrder(S) == SeqFromTo(S, 1, Len(AllPaths))

Range(q) == {q[i] : i \in DOMAIN q}

Put(f, k, v) == [x \in DOMAIN f \cup {k} |-> IF x = k THEN v ELSE f[x]]
Drop(f, K) == [x \in DOMAIN f \ K |-> f[x]]
EmptyMap == [x \in {} |-> ""]
\* the content at path k, "<none>" when there is no such file
Get(f, k) == IF k \in DOMAIN f THEN f[k] ELSE "<none>"

(***************************************************************************)
(* Content hash                                                             *)
(***************************************************************************)
\* SHA-1 as a collision-free digest: distinct messages, distinct digests
sha1(msg) == "sha1:" \o msg

\* variant: the digest without the length prefix
calculateHashNoPrefix(data) == sha1(data)

calculateHash(data) == sha1(NumToStr(Len(data)) \o "|" \o data)

\* the backend's convention, which the comment of calculateHash refers to
ServerHash(data) == sha1(NumToStr(Len(data)) \o "|" \o data)

(***************************************************************************)
(* Metadata store                                                           *)
(***************************************************************************)
\* content of a file holding text: absent, an EDN map, or text that is not EDN
NoFile == [kind |-> "absent", edn |-> <<>>]
Garbage == [kind |-> "garbage", edn |-> <<>>]
Truncated == [kind |-> "empty", edn |-> <<>>]
EdnFile(m) == [kind |-> "edn", edn |-> m]

HasKey(m, k) == \E i \in DOMAIN m : m[i][1] = k
At(m, k) == m[CHOOSE i \in DOMAIN m : m[i][1] = k][2]
\* .at(key) of a string entry; a missing key reads as undefined, which is falsy like ""
AtStr(m, k) == IF HasKey(m, k) THEN At(m, k) ELSE ""

NullMeta == [ok |-> FALSE, version |-> "", assets |-> <<>>]

parseAssetMetadataEdn(content) ==
  IF content.kind # "edn" THEN NullMeta
  ELSE LET parsed == content.edn
           version == IF AtStr(parsed, ":version") # "" THEN AtStr(parsed, ":version")
                      ELSE AtStr(parsed, ":aliased-version")
           assets == IF HasKey(parsed, ":assets") THEN At(parsed, ":assets") ELSE <<>>
           assetList == [i \in DOMAIN assets |->
                           [path |-> AtStr(assets[i], ":path"),
                            hash |-> AtStr(assets[i], ":content-hash")]]
       IN IF version = "" THEN NullMeta
          ELSE [ok |-> TRUE, version |-> version, assets |-> assetList]

\* variant: without the try block an unreadable file makes the read throw
readAssetMetadataThrowsUnparsed(file) == file.kind \in {"garbage", "empty"}

\* whether readAssetMetadata throws: it catches every error of the read and of
\* the parser
readAssetMetadataThrows(file) == FALSE

readAssetMetadata(file) ==
  IF file.kind = "absent" THEN NullMeta ELSE parseAssetMetadataEdn(file)

\* variant: the hash of a record is written under the key :hash
EncodeMetadataHashKey(version, assets) ==
  EdnFile(<< <<":version", version>>,
             <<":assets", [i \in DOMAIN assets |->
                             << <<":path", assets[i].path>>,
                                <<":hash", assets[i].hash>> >>]>> >>)

\* the text writeAssetMetadata puts into the metadata file
EncodeMetadata(version, assets) ==
  EdnFile(<< <<":version", version>>,
             <<":assets", [i \in DOMAIN assets |->
                             << <<":path", assets[i].path>>,
                                <<":content-hash", assets[i].hash>> >>]>> >>)

(***************************************************************************)
(* Local tree scanner                                                       *)
(***************************************************************************)
\* scanDir skips an entry named .flex-cli or .DS_Store at every depth
\* variant: only the metadata directory is skipped
ScannedWithJunk(p) ==
  LET entries == PathEntries(p) IN \A i \in DOMAIN entries : entries[i] # ".flex-cli"

\* scanDir reaches the file at p: no entry on the way is skipped
Scanned(p) ==
  LET entries == PathEntries(p)
  IN \A i \in DOMAIN entries : entries[i] # ".flex-cli" /\ entries[i] # ".DS_Store"

listLocalAssetPaths(fs) == InOrder({p \in DOMAIN fs : Scanned(p)})

readLocalAssets(fs) ==
  LET ps == listLocalAssetPaths(fs)
  IN [i \in DOMAIN ps |-> [path |-> ps[i], data |-> fs[ps[i]], hash |-> calculateHash(fs[ps[i]])]]

(***************************************************************************)
(* Validation and diff                                                      *)
(***************************************************************************)
InvalidJson(asset) == endsWith(asset.path, ".json") /\ ~JsonParses(asset.data)

\* variant: the parse error is swallowed
validateJsonAssetsSwallowed(assets) == 0

\* index of the asset validateJsonAssets throws on, 0 when it returns
validateJsonAssets(assets) ==
  IF \E i \in DOMAIN assets : InvalidJson(assets[i])
  THEN CHOOSE i \in DOMAIN assets :
         InvalidJson(assets[i]) /\ \A j \in 1..(i - 1) : ~InvalidJson(assets[j])
  ELSE 0

\* hashByPath.get(path): the hash of the last record of that path, "" for none
StoredHash(existingMeta, path) ==
  IF \E i \in DOMAIN existingMeta : existingMeta[i].path = path
  THEN existingMeta[CHOOSE i \in DOMAIN existingMeta :
                      existingMeta[i].path = path
                      /\ \A j \in DOMAIN existingMeta : existingMeta[j].path = path => j <= i].hash
  ELSE ""

IsChanged(existingMeta, asset) ==
  LET storedHash == StoredHash(existingMeta, asset.path)
  IN storedHash = "" \/ storedHash # asset.hash

\* variant: the stored hash is read under a key the records do not have, so
\* every asset counts as changed
filterChangedAssetsWrongKey(existingMeta, localAssets) == localAssets

\* variant: an asset without a record is skipped
filterChangedAssetsRecordedOnly(existingMeta, localAssets) ==
  SelectSeq(localAssets,
            LAMBDA asset : LET storedHash == StoredHash(existingMeta, asset.path)
                           IN storedHash # "" /\ storedHash # asset.hash)

\* variant: only assets without a record are taken, the hashes are not compared
filterChangedAssetsNewOnly(existingMeta, localAssets) ==
  SelectSeq(localAssets, LAMBDA asset : StoredHash(existingMeta, asset.path) = "")

filterChangedAssets(existingMeta, localAssets) ==
  SelectSeq(localAssets, LAMBDA asset : IsChanged(existingMeta, asset))

isJsonAsset(assetPath) == endsWith(toLowerCase(assetPath), ".json")

(***************************************************************************)
(* SDK: the multipart fields of the push transaction                        *)
(***************************************************************************)
Field(name, value, filename) == [name |-> name, value |-> value, filename |-> filename]

\* an operation as the SDK receives it; data, stagingId and filename are optional
Operation(path, op, data, stagingId, filename) ==
  [path |-> path, op |-> op, data |-> data, stagingId |-> stagingId, filename |-> filename]

\* variant: inline data only, no staging handle
OperationFieldsInlineOnly(i, op) ==
  << Field("path-" \o NumToStr(i), Str(op.path), Undefined),
     Field("op-" \o NumToStr(i), Str(op.op), Undefined) >>
  \o (IF op.op = "upsert" /\ Truthy(op.data)
      THEN << Field("data-raw-" \o NumToStr(i), op.data, Undefined) >>
      ELSE <<>>)

\* the fields the loop body of pushAssets pushes for operations[i]
OperationFields(i, op) ==
  << Field("path-" \o NumToStr(i), Str(op.path), Undefined),
     Field("op-" \o NumToStr(i), Str(op.op), Undefined) >>
  \o (IF op.op = "upsert"
      THEN IF Truthy(op.stagingId)
           THEN << Field("staging-id-" \o NumToStr(i), Str(StringOf(op.stagingId)), Undefined) >>
           ELSE IF Truthy(op.data)
                THEN LET fname == IF Truthy(op.filename) THEN op.filename ELSE Str(op.path)
                     IN << Field("data-raw-" \o NumToStr(i), op.data, fname) >>
                ELSE <<>>
      ELSE <<>>)

RECURSIVE PushFieldsFrom(_, _)
PushFieldsFrom(operations, i) ==
  IF i >= Len(operations) THEN <<>>
  ELSE OperationFields(i, operations[i + 1]) \o PushFieldsFrom(operations, i + 1)

\* the fields pushAssets of the SDK posts to /assets/push
sdkPushAssets(currentVersion, operations) ==
  << Field("current-version", Str(currentVersion), Undefined) >> \o PushFieldsFrom(operations, 0)

(***************************************************************************)
(* State                                                                    *)
(***************************************************************************)
VARIABLES
  rootKind,   \* what the --path argument names: "absent", "dir" or "file"
  files,      \* the asset files under the directory: path -> content
  metaFile,   \* content of .flex-cli/asset-meta.edn
  tmpZip,     \* the temporary archive of the running pull
  srvVer,     \* number of the server's latest asset version, 0 for none yet
  srvHist,    \* the server's asset set at each version: version -> (path -> content)
  srvStaged,  \* the server's staged uploads: handle -> content
  pc,         \* position of the running CLI invocation, "idle" for none
  loc,        \* local variables of the running invocation
  run,        \* what the current or last invocation was given and did
  prev,       \* the invocation before it, when nothing happened in between
  env,        \* actions of the operator and of other clients so far
  sdkIn,      \* arguments of a direct call of the SDK pushAssets
  sdkOut,     \* the fields that call posted
  fnIn,       \* arguments of a direct call of one of the helper functions
  fnOut,      \* what that call returned
  clock,      \* Date.now(), in milliseconds since the first invocation
  tmpDir,     \* the archives in the temporary directory: name -> whose bytes
  procs       \* the pull invocations that run side by side

cliVars == <<rootKind, files, metaFile, tmpZip, srvVer, srvHist, srvStaged, pc, loc, run,
             prev, env>>
callVars == <<sdkIn, sdkOut, fnIn, fnOut>>
parVars == <<clock, tmpDir, procs>>
vars == <<rootKind, files, metaFile, tmpZip, srvVer, srvHist, srvStaged, pc, loc, run,
          prev, env, sdkIn, sdkOut, fnIn, fnOut, clock, tmpDir, procs>>

ASSET_META_FILENAME == "meta/asset-meta.edn"
ASSETS_DIR == "assets/"

\* the version token of server version n
VerName(n) == IF n = 0 THEN "nil" ELSE "v" \o NumToStr(n)

NoResult == [version |-> "", assets |-> <<>>]

LocInit ==
  [prune |-> FALSE, localAssets |-> <<>>, currentMeta |-> NullMeta, entries |-> <<>>,
   idx |-> 0, assetMeta |-> NullMeta, report |-> FALSE, currentVersion |-> "",
   changedAssets |-> <<>>, stageableAssets |-> <<>>, deleteOperations |-> <<>>,
   stagedByPath |-> EmptyMap, result |-> NoResult]

RunNone ==
  [cmd |-> "none", prune |-> FALSE, reqVer |-> 0, rootBefore |-> "absent",
   metaBefore |-> NoFile, filesBefore |-> EmptyMap, net |-> <<>>, fwrites |-> {}, fdeletes |-> {}, mwrites |-> 0,
   outcome |-> "none", failedAt |-> "", errPath |-> "", served |-> 0]

PrevNone == [cmd |-> "none", prune |-> FALSE, reqVer |-> 0, emptyDir |-> FALSE]

\* a request the CLI sent, whether it got a successful response, and the code
\* of the error it got otherwise ("" where the code plays no part); a request
\* that is not done is in flight
Request(kind, ok, path, fields) ==
  [kind |-> kind, ok |-> ok, path |-> path, fields |-> fields, code |-> "", done |-> TRUE,
   handle |-> Undefined]

\* the last request of the log has got its response
Answered(r, ok, code) ==
  [r EXCEPT !.net[Len(r.net)].ok = ok, !.net[Len(r.net)].code = code,
            !.net[Len(r.net)].done = TRUE]

SdkNone == [currentVersion |-> "", operations |-> <<>>]

FnNone == [fn |-> "none"]

\* the pull invocations that may run at the same time
Procs == {1, 2}
\* an archive of the temporary directory: the invocations whose bytes it
\* holds and the invocations whose stream into it is still open
NoArchive == [by |-> {}, open |-> {}]
\* an invocation: where it is, the archive it named, whose archives it
\* extracted, truncated and unlinked, and how it ended
ProcNone == [pc |-> "idle", zip |-> "", got |-> {}, over |-> {}, del |-> {}, out |-> ""]

Init ==
  /\ rootKind = "absent"
  /\ files = EmptyMap
  /\ metaFile = NoFile
  /\ tmpZip = [exists |-> FALSE, entries |-> <<>>]
  /\ srvVer = 0
  /\ srvHist = <<>>
  /\ srvStaged = EmptyMap
  /\ pc = "idle"
  /\ loc = LocInit
  /\ run = RunNone
  /\ prev = PrevNone
  /\ env = 0
  /\ sdkIn = SdkNone
  /\ sdkOut = <<>>
  /\ fnIn = FnNone
  /\ fnOut = FnNone
  /\ clock = 0
  /\ tmpDir = [name \in {} |-> NoArchive]
  /\ procs = [p \in Procs |-> ProcNone]

(***************************************************************************)
(* The Build API server                                                     *)
(***************************************************************************)
\* the server refuses JSON assets that do not parse
ServerAccepts(path, content) == endsWith(toLowerCase(path), ".json") => JsonParses(content)

ServerRecords(assets) ==
  LET ps == InOrder(DOMAIN assets)
  IN [i \in DOMAIN ps |-> [path |-> ps[i], hash |-> ServerHash(assets[ps[i]])]]

HasField(fields, name) == \E i \in DOMAIN fields : fields[i].name = name
FieldValue(fields, name) == fields[CHOOSE i \in DOMAIN fields : fields[i].name = name].value

\* the asset set after the operations i, i+1, ... of a push transaction
RECURSIVE ServerApply(_, _, _, _)
ServerApply(fields, staged, assets, i) ==
  LET n == NumToStr(i) IN
  IF ~HasField(fields, "path-" \o n) \/ ~HasField(fields, "op-" \o n)
  THEN [ok |-> TRUE, assets |-> assets]
  ELSE LET path == FieldValue(fields, "path-" \o n).s
           op == FieldValue(fields, "op-" \o n).s
           reject == [ok |-> FALSE, assets |-> assets]
       IN IF op = "delete" THEN ServerApply(fields, staged, Drop(assets, {path}), i + 1)
          ELSE IF HasField(fields, "staging-id-" \o n)
          THEN LET h == FieldValue(fields, "staging-id-" \o n).s
               IN IF h \in DOMAIN staged /\ ServerAccepts(path, staged[h])
                  THEN ServerApply(fields, staged, Put(assets, path, staged[h]), i + 1)
                  ELSE reject
          ELSE IF HasField(fields, "data-raw-" \o n)
          THEN LET c == FieldValue(fields, "data-raw-" \o n).s
               IN IF ServerAccepts(path, c)
                  THEN ServerApply(fields, staged, Put(assets, path, c), i + 1)
                  ELSE reject
          ELSE reject

SrvAssets == IF srvVer = 0 THEN EmptyMap ELSE srvHist[srvVer]

\* the name of an asset's entry; a hostile or sloppy server names the last
\* entry with a parent step, as an absolute path, or with a doubled separator
EntryName(fault, path) ==
  CASE fault = "dotdot" -> ASSETS_DIR \o "../" \o path
    [] fault = "absolute" -> "/" \o path
    [] fault = "slashes" -> ASSETS_DIR \o "/" \o path
    [] OTHER -> ASSETS_DIR \o path

\* the archive /assets/pull streams for version v: one metadata entry and one
\* entry per asset, in the order and with the version key the server chooses
ZipEntries(v, metaFirst, key, fault) ==
  LET assets == srvHist[v]
      ps == InOrder(DOMAIN assets)
      recs == ServerRecords(assets)
      ednRecs == [i \in DOMAIN recs |->
                    << <<":path", recs[i].path>>, <<":content-hash", recs[i].hash>> >>]
      metaEntry == [fileName |-> ASSET_META_FILENAME, data |-> "",
                    meta |-> IF fault = "badmeta" THEN Garbage
                             ELSE EdnFile(<< <<key, VerName(v)>>, <<":assets", ednRecs>> >>)]
      fileEntries == [i \in DOMAIN ps |->
                        [fileName |-> IF i = Len(ps) THEN EntryName(fault, ps[i])
                                      ELSE ASSETS_DIR \o ps[i],
                         data |-> assets[ps[i]], meta |-> NoFile]]
  IN IF fault = "nometa" THEN fileEntries
     ELSE IF metaFirst THEN <<metaEntry>> \o fileEntries
     ELSE fileEntries \o <<metaEntry>>

\* the bundle of an explicit version names it :version, the bundle of the alias
\* latest names it :aliased-version; a broken bundle lacks or garbles the
\* metadata entry or misnames an asset entry
ZipVariants(reqVer) ==
  LET key == IF reqVer # 0 THEN ":version" ELSE ":aliased-version" IN
  {[metaFirst |-> m, key |-> key, fault |-> "ok"] : m \in BOOLEAN}
  \cup {[metaFirst |-> TRUE, key |-> key, fault |-> f] :
          f \in {"nometa", "badmeta", "dotdot", "absolute", "slashes"}}

(***************************************************************************)
(* The operator and other API clients, between invocations                  *)
(***************************************************************************)
Forget == prev' = PrevNone /\ UNCHANGED run

\* the operator writes or removes an asset file
EditFile ==
  /\ pc = "idle" /\ rootKind = "dir" /\ env < MaxEnv
  /\ \E p \in EditPaths :
       \/ \E c \in Contents : Get(files, p) # c /\ files' = Put(files, p, c)
       \/ p \in DOMAIN files /\ files' = Drop(files, {p})
  /\ env' = env + 1
  /\ Forget
  /\ UNCHANGED <<rootKind, metaFile, tmpZip, srvVer, srvHist, srvStaged, pc, loc, callVars, parVars>>

\* the operator removes the metadata file or overwrites it with text that is not EDN
TamperMeta ==
  /\ pc = "idle" /\ rootKind = "dir" /\ env < MaxEnv
  /\ metaFile.kind = "edn"
  /\ metaFile' \in {NoFile, Garbage}
  /\ env' = env + 1
  /\ Forget
  /\ UNCHANGED <<rootKind, files, tmpZip, srvVer, srvHist, srvStaged, pc, loc, callVars, parVars>>

\* the operator creates a regular file where the directory is expected
MakeRootFile ==
  /\ pc = "idle" /\ rootKind = "absent" /\ env < MaxEnv
  /\ rootKind' = "file"
  /\ env' = env + 1
  /\ Forget
  /\ UNCHANGED <<files, metaFile, tmpZip, srvVer, srvHist, srvStaged, pc, loc, callVars, parVars>>

\* another client pushes a new version
ForeignPush ==
  /\ pc = "idle" /\ srvVer < MaxVersion /\ env < MaxEnv
  /\ \E p \in EditPaths :
       \/ \E c \in Contents :
            /\ ServerAccepts(p, c)
            /\ Get(SrvAssets, p) # c
            /\ srvHist' = Append(srvHist, Put(SrvAssets, p, c))
       \/ p \in DOMAIN SrvAssets /\ srvHist' = Append(srvHist, Drop(SrvAssets, {p}))
  /\ srvVer' = srvVer + 1
  /\ env' = env + 1
  /\ Forget
  /\ UNCHANGED <<rootKind, files, metaFile, tmpZip, srvStaged, pc, loc, callVars, parVars>>

(***************************************************************************)
(* Ends of an invocation                                                    *)
(***************************************************************************)
NewRun(cmd, prune, reqVer) ==
  [RunNone EXCEPT !.cmd = cmd, !.prune = prune, !.reqVer = reqVer, !.rootBefore = rootKind,
                  !.metaBefore = metaFile, !.filesBefore = files, !.outcome = "running"]

Sent(r, req) == [r EXCEPT !.net = Append(@, req)]

\* the invocation has printed its outcome; r is the log up to here
End(r, outcome, failedAt, errPath) ==
  /\ run' = [r EXCEPT !.outcome = outcome, !.failedAt = failedAt, !.errPath = errPath]
  /\ pc' = "done"
  /\ loc' = LocInit
  /\ srvStaged' = EmptyMap

\* variant: the archive is left where it is, as when the process exits inside
\* the try block
NoTmpKept == tmpZip

\* the finally block of pullAssets has unlinked the temporary archive
NoTmp == [exists |-> FALSE, entries |-> <<>>]

\* the process is gone; a following invocation knows a successful one as the
\* previous one, and a push killed between the server's answer and the metadata
\* write as a killed push
Exit ==
  /\ pc = "done"
  /\ pc' = "idle"
  /\ prev' = IF run.outcome \in {"pulled", "pushed", "uptodate"}
             THEN [cmd |-> run.cmd, prune |-> run.prune, reqVer |-> run.reqVer,
                   emptyDir |-> (DOMAIN run.filesBefore = {} /\ run.metaBefore.kind = "absent")]
             ELSE IF run.cmd = "push" /\ run.outcome = "killed" /\ run.served > 0
                     /\ run.mwrites = 0
             THEN [PrevNone EXCEPT !.cmd = "push_killed", !.prune = run.prune]
             ELSE PrevNone
  /\ run' = RunNone
  \* an archive a killed pull left behind keeps its name in the temporary
  \* directory; the next invocation names a new one (createTempZipPath)
  /\ tmpZip' = NoTmp
  /\ UNCHANGED <<rootKind, files, metaFile, srvVer, srvHist, srvStaged, loc, env, callVars, parVars>>

(***************************************************************************)
(* assets pull                                                              *)
(***************************************************************************)
\* variant: the archive is opened with decodeStrings off, or the paths come
\* unchecked from a JSON answer: no entry name is refused
validateFileNameOff(fileName) == TRUE

\* yauzl.open without decodeStrings: false checks every entry name and emits
\* an error for an absolute path and for a name with a ".." entry
validateFileName(fileName) ==
  /\ ~startsWith(fileName, "/")
  /\ ".." \notin Range(PathEntries(fileName))

RECURSIVE NormalizeEntries(_, _)
\* path.normalize on the entries after the base: empty and "." entries drop
\* out, ".." takes back the entry before it or stays as a step above the base
NormalizeEntries(entries, acc) ==
  IF entries = <<>> THEN acc
  ELSE LET e == Head(entries) IN
       NormalizeEntries(Tail(entries),
         IF e \in {"", "."} THEN acc
         ELSE IF e = ".." /\ acc # <<>> /\ acc[Len(acc)] # ".."
         THEN SubSeq(acc, 1, Len(acc) - 1)
         ELSE Append(acc, e))

RECURSIVE JoinEntries(_)
JoinEntries(entries) ==
  IF entries = <<>> THEN "."
  ELSE IF Len(entries) = 1 THEN entries[1]
  ELSE entries[1] \o "/" \o JoinEntries(Tail(entries))

\* join(basePath, name), written relative to basePath: a result that starts
\* with ".." lies outside the directory
join(name) == JoinEntries(NormalizeEntries(PathEntries(name), <<>>))

removeAssetsDir(filename) ==
  IF startsWith(filename, ASSETS_DIR)
  THEN SubSeq(filename, Len(ASSETS_DIR) + 1, Len(filename))
  ELSE filename

\* query parameters of getAssetsPullUrl
PullParams(reqVer) ==
  IF reqVer # 0 THEN << Field("version", Str(VerName(reqVer)), Undefined) >>
  ELSE << Field("version-alias", Str("latest"), Undefined) >>

\* variant: only files the previous metadata tracked are unlinked
DeletedPathsTrackedOnly(localAssets, newAssets) ==
  {p \in Range(localAssets) :
     /\ \E i \in DOMAIN loc.currentMeta.assets : loc.currentMeta.assets[i].path = p
     /\ ~\E i \in DOMAIN newAssets : newAssets[i].path = p}

\* the files pull unlinks: listed before the pull and without a record in the bundle
DeletedPaths(localAssets, newAssets) ==
  {p \in Range(localAssets) : ~\E i \in DOMAIN newAssets : newAssets[i].path = p}

\* variant: the metadata object itself is compared with the version
UpdatedAlways(currentMeta, remoteVersion) == TRUE

\* currentMeta?.version !== remoteVersion
Updated(currentMeta, remoteVersion) == ~currentMeta.ok \/ currentMeta.version # remoteVersion

\* pullAssets up to the download: directory check, snapshot of the local paths,
\* read of the metadata
PullStart ==
  /\ pc = "idle"
  /\ \E prune \in BOOLEAN, reqVer \in 0..srvVer :
       LET r == NewRun("pull", prune, reqVer) IN
       /\ IF rootKind = "file"
          THEN /\ End(r, "error", "precheck", "")
               /\ UNCHANGED rootKind
          ELSE IF readAssetMetadataThrows(metaFile)
          THEN /\ End(r, "error", "readmeta", "")
               /\ rootKind' = "dir"
          ELSE /\ rootKind' = "dir"
               /\ run' = r
               /\ loc' = [LocInit EXCEPT !.prune = prune,
                                         !.localAssets = IF prune THEN listLocalAssetPaths(files)
                                                         ELSE <<>>,
                                         !.currentMeta = readAssetMetadata(metaFile)]
               /\ pc' = "pull_download"
               /\ UNCHANGED srvStaged
  /\ UNCHANGED <<files, metaFile, tmpZip, srvVer, srvHist, prev, env, callVars, parVars>>

\* variant: a failed download is tried once more
PullDownloadRetry ==
  /\ pc = "pull_download"
  /\ LET served == IF run.reqVer = 0 THEN srvVer ELSE run.reqVer IN
     \/ /\ served \in 1..srvVer
        /\ \E z \in ZipVariants(run.reqVer) :
             tmpZip' = [exists |-> TRUE, entries |-> ZipEntries(served, z.metaFirst, z.key, z.fault)]
        /\ run' = [Sent(run, Request("pull", TRUE, "", PullParams(run.reqVer))) EXCEPT
                     !.served = served]
        /\ loc' = [loc EXCEPT !.idx = 1]
        /\ pc' = "pull_unzip"
        /\ UNCHANGED srvStaged
     \/ /\ Len(run.net) = 0
        /\ run' = Sent(run, Request("pull", FALSE, "", PullParams(run.reqVer)))
        /\ tmpZip' = NoTmp
        /\ UNCHANGED <<pc, loc, srvStaged>>
     \/ /\ Len(run.net) > 0
        /\ End(Sent(run, Request("pull", FALSE, "", PullParams(run.reqVer))),
               "error", "download", "")
        /\ tmpZip' = NoTmp
  /\ UNCHANGED <<rootKind, files, metaFile, srvVer, srvHist, prev, env, callVars, parVars>>

\* getAssetsZipStream and the pipeline into the temporary archive
PullDownload ==
  /\ pc = "pull_download"
  /\ LET served == IF run.reqVer = 0 THEN srvVer ELSE run.reqVer IN
     \/ /\ served \in 1..srvVer
        /\ \E z \in ZipVariants(run.reqVer) :
             tmpZip' = [exists |-> TRUE, entries |-> ZipEntries(served, z.metaFirst, z.key, z.fault)]
        /\ run' = [Sent(run, Request("pull", TRUE, "", PullParams(run.reqVer))) EXCEPT
                     !.served = served]
        /\ loc' = [loc EXCEPT !.idx = 1]
        /\ pc' = "pull_unzip"
        /\ UNCHANGED srvStaged
     \/ /\ End(Sent(run, Request("pull", FALSE, "", PullParams(run.reqVer))),
               "error", "download", "")
        /\ tmpZip' = NoTmp
  /\ UNCHANGED <<rootKind, files, metaFile, srvVer, srvHist, prev, env, callVars, parVars>>

\* unzipAssets, one archive entry: the metadata entry is parsed, every other
\* entry is written to its path under the directory
PullUnzipEntry ==
  /\ pc = "pull_unzip" /\ loc.idx <= Len(tmpZip.entries)
  /\ LET entry == tmpZip.entries[loc.idx] IN
     \/ \* the library refuses the entry name: its error rejects unzipAssets
        /\ ~validateFileName(entry.fileName)
        /\ End(run, "error", "unzip", entry.fileName)
        /\ tmpZip' = NoTmp
        /\ UNCHANGED files
     \/ /\ validateFileName(entry.fileName)
        /\ entry.fileName = ASSET_META_FILENAME
        /\ LET assetMeta == parseAssetMetadataEdn(entry.meta) IN
           IF assetMeta.ok
           THEN /\ loc' = [loc EXCEPT !.assetMeta = assetMeta, !.idx = @ + 1]
                /\ UNCHANGED <<pc, run, tmpZip, srvStaged>>
           ELSE /\ End(run, "error", "unzip", "")
                /\ tmpZip' = NoTmp
        /\ UNCHANGED files
     \/ /\ validateFileName(entry.fileName)
        /\ entry.fileName # ASSET_META_FILENAME
        /\ LET assetPath == join(removeAssetsDir(entry.fileName)) IN
           /\ files' = Put(files, assetPath, entry.data)
           /\ run' = [run EXCEPT !.fwrites = @ \cup {assetPath}]
        /\ loc' = [loc EXCEPT !.idx = @ + 1]
        /\ UNCHANGED <<pc, tmpZip, srvStaged>>
     \/ \* the entry's stream or the file write fails
        /\ validateFileName(entry.fileName)
        /\ End(run, "error", "unzip", "")
        /\ tmpZip' = NoTmp
        /\ UNCHANGED files
  /\ UNCHANGED <<rootKind, metaFile, srvVer, srvHist, prev, env, callVars, parVars>>

\* end of the archive, then the prune deletions of pullAssets
PullPrune ==
  /\ pc = "pull_unzip" /\ loc.idx > Len(tmpZip.entries)
  /\ IF ~loc.assetMeta.ok
     THEN /\ End(run, "error", "unzip", "")
          /\ tmpZip' = NoTmp
          /\ UNCHANGED files
     ELSE LET remoteVersion == loc.assetMeta.version
              deletedPaths == DeletedPaths(loc.localAssets, loc.assetMeta.assets)
              updated == Updated(loc.currentMeta, remoteVersion)
              shouldReportUpdate == updated \/ deletedPaths # {}
          IN \/ /\ files' = Drop(files, deletedPaths)
                /\ run' = [run EXCEPT !.fdeletes = deletedPaths \cap DOMAIN files]
                /\ loc' = [loc EXCEPT !.report = shouldReportUpdate]
                /\ pc' = "pull_persist"
                /\ UNCHANGED <<tmpZip, srvStaged>>
             \/ \* unlinkSync throws after some of the deletions
                /\ deletedPaths \cap DOMAIN files # {}
                /\ \E done \in SUBSET (deletedPaths \cap DOMAIN files) :
                     /\ done # deletedPaths \cap DOMAIN files
                     /\ files' = Drop(files, done)
                     /\ End([run EXCEPT !.fdeletes = done], "error", "prune", "")
                /\ tmpZip' = NoTmp
  /\ UNCHANGED <<rootKind, metaFile, srvVer, srvHist, prev, env, callVars, parVars>>

\* writeAssetMetadata opens the metadata file, which truncates it; without an
\* update pull reports up to date instead
PullPersist ==
  /\ pc = "pull_persist"
  /\ IF loc.report
     THEN \/ /\ metaFile' = Truncated
             /\ run' = [run EXCEPT !.mwrites = @ + 1]
             /\ pc' = "pull_write"
             /\ UNCHANGED <<loc, tmpZip, srvStaged>>
          \/ \* the metadata directory or file cannot be created
             /\ End(run, "error", "metawrite", "")
             /\ tmpZip' = NoTmp
             /\ UNCHANGED metaFile
     ELSE /\ End(run, "uptodate", "", "")
          /\ tmpZip' = NoTmp
          /\ UNCHANGED metaFile
  /\ UNCHANGED <<rootKind, files, srvVer, srvHist, prev, env, callVars, parVars>>

\* the metadata text is written and the pull reports the version
PullWrite ==
  /\ pc = "pull_write"
  /\ \/ /\ metaFile' = EncodeMetadata(loc.assetMeta.version, loc.assetMeta.assets)
        /\ End(run, "pulled", "", "")
     \/ \* the write fails
        /\ End(run, "error", "metawrite", "")
        /\ UNCHANGED metaFile
  /\ tmpZip' = NoTmp
  /\ UNCHANGED <<rootKind, files, srvVer, srvHist, prev, env, callVars, parVars>>

\* the process is killed; nothing of it runs any more
Kill ==
  /\ pc \notin {"idle", "done"}
  /\ End(run, "killed", "", "")
  /\ UNCHANGED <<rootKind, files, metaFile, tmpZip, srvVer, srvHist, prev, env, callVars, parVars>>

(***************************************************************************)
(* assets push                                                              *)
(***************************************************************************)
\* variant: the catch block prints the error and forgets the exit status
PushCatchNoExit(r, failedAt, errPath) == End(r, "warned", failedAt, errPath)

\* the catch block of pushAssets: the error is printed and the process exits with 1
PushCatch(r, failedAt, errPath) == End(r, "error", failedAt, errPath)

\* variant: the deletions are computed whether or not prune is requested
DeleteOperationsAlways(prune, currentMeta, localAssets) ==
  SelectSeq([i \in DOMAIN currentMeta.assets |-> currentMeta.assets[i].path],
            LAMBDA path : ~\E j \in DOMAIN localAssets : localAssets[j].path = path)

\* the paths push asks the server to delete: recorded but not scanned locally
DeleteOperations(prune, currentMeta, localAssets) ==
  IF prune /\ currentMeta.ok
  THEN SelectSeq([i \in DOMAIN currentMeta.assets |-> currentMeta.assets[i].path],
                 LAMBDA path : ~\E j \in DOMAIN localAssets : localAssets[j].path = path)
  ELSE <<>>

\* variant: the suffix is compared as it is spelled
StageableAssetsExactCase(changedAssets) ==
  SelectSeq(changedAssets, LAMBDA a : ~endsWith(a.path, ".json"))

\* the changed assets that go through the staging endpoint
StageableAssets(changedAssets) == SelectSeq(changedAssets, LAMBDA a : ~isJsonAsset(a.path))

\* the upsert operation of a changed asset: the staging handle if it has a
\* truthy one, else the data inline
UpsertOperation(asset, stagedByPath) ==
  LET stagingId == IF asset.path \in DOMAIN stagedByPath THEN stagedByPath[asset.path]
                   ELSE Undefined
  IN IF Truthy(stagingId)
     THEN Operation(asset.path, "upsert", Undefined, stagingId, Undefined)
     ELSE Operation(asset.path, "upsert", Buf(asset.data), Undefined, Str(asset.path))

\* variant: the deletes are put before the upserts
PushOperationsDeletesFirst(changedAssets, stagedByPath, deleteOperations) ==
  [i \in DOMAIN deleteOperations |->
     Operation(deleteOperations[i], "delete", Undefined, Undefined, Undefined)]
  \o [i \in DOMAIN changedAssets |-> UpsertOperation(changedAssets[i], stagedByPath)]

\* [...upsertOperations, ...deleteOperations]
PushOperations(changedAssets, stagedByPath, deleteOperations) ==
  [i \in DOMAIN changedAssets |-> UpsertOperation(changedAssets[i], stagedByPath)]
  \o [i \in DOMAIN deleteOperations |->
        Operation(deleteOperations[i], "delete", Undefined, Undefined, Undefined)]

\* variant: the returned records are merged into the previous ones
NewMetadataAssetsMerged(resultAssets) ==
  [i \in DOMAIN resultAssets |->
     [path |-> resultAssets[i].path, hash |-> resultAssets[i].contentHash]]
  \o SelectSeq(loc.currentMeta.assets,
               LAMBDA a : ~\E i \in DOMAIN resultAssets : resultAssets[i].path = a.path)

\* the records push persists: those of the response, content-hash for contentHash
NewMetadataAssets(resultAssets) ==
  [i \in DOMAIN resultAssets |->
     [path |-> resultAssets[i].path, hash |-> resultAssets[i].contentHash]]

\* the handle the server gives to the next staged upload
NextHandle == Str("stg-" \o NumToStr(Cardinality(DOMAIN srvStaged) + 1))

\* response.data['staging-id'] of a successful staging response: a new handle
\* or the empty string
StageHandles == {NextHandle, Str("")}

\* variant: only the existence of the path is tested
PushPathValidExists(kind) == kind # "absent"

\* existsSync(path) && statSync(path).isDirectory()
PushPathValid(kind) == kind = "dir"

\* pushAssets up to the first request: directory check, metadata, scan,
\* JSON validation, diff
PushStart ==
  /\ pc = "idle"
  /\ \E prune \in BOOLEAN :
       LET r == NewRun("push", prune, 0)
           currentMeta == readAssetMetadata(metaFile)
           currentVersion == IF currentMeta.ok /\ currentMeta.version # ""
                             THEN currentMeta.version ELSE "nil"
           localAssets == readLocalAssets(files)
           invalid == validateJsonAssets(localAssets)
           changedAssets == filterChangedAssets(currentMeta.assets, localAssets)
           stageableAssets == StageableAssets(changedAssets)
           deleteOperations == DeleteOperations(prune, currentMeta, localAssets)
           noOps == Len(changedAssets) = 0 /\ Len(deleteOperations) = 0
       IN
       /\ IF ~PushPathValid(rootKind) THEN PushCatch(r, "precheck", "")
          ELSE IF readAssetMetadataThrows(metaFile) THEN PushCatch(r, "readmeta", "")
          ELSE IF invalid # 0 THEN PushCatch(r, "validate", localAssets[invalid].path)
          ELSE IF noOps THEN End(r, "uptodate", "", "")
          ELSE /\ run' = r
               /\ loc' = [LocInit EXCEPT !.prune = prune, !.currentMeta = currentMeta,
                                         !.currentVersion = currentVersion,
                                         !.changedAssets = changedAssets,
                                         !.stageableAssets = stageableAssets,
                                         !.deleteOperations = deleteOperations,
                                         !.idx = 1]
               /\ pc' = IF Len(stageableAssets) > 0 THEN "push_stage" ELSE "push_submit"
               /\ UNCHANGED srvStaged
  /\ UNCHANGED <<rootKind, files, metaFile, tmpZip, srvVer, srvHist, prev, env, callVars, parVars>>

\* the multipart body stageAsset of the SDK posts for an asset
StageFields(asset) == << Field("file", Buf(asset.data), Str(asset.path)) >>

\* variant: the staging call is not awaited, the loop goes on to the next asset
PushStageNoAwait ==
  /\ pc = "push_stage"
  /\ LET asset == loc.stageableAssets[loc.idx] IN
     /\ run' = Sent(run, [Request("stage", FALSE, asset.path, StageFields(asset))
                            EXCEPT !.done = FALSE])
     /\ IF loc.idx = Len(loc.stageableAssets)
        THEN pc' = "push_staging" /\ UNCHANGED loc
        ELSE pc' = "push_stage" /\ loc' = [loc EXCEPT !.idx = @ + 1]
  /\ UNCHANGED <<rootKind, files, metaFile, tmpZip, srvVer, srvHist, srvStaged, prev, env,
                 callVars, parVars>>

\* one iteration of the staging loop, up to the await: stageAsset of the SDK
\* posts the next stageable asset
PushStage ==
  /\ pc = "push_stage"
  /\ LET asset == loc.stageableAssets[loc.idx] IN
     run' = Sent(run, [Request("stage", FALSE, asset.path, StageFields(asset))
                         EXCEPT !.done = FALSE])
  /\ pc' = "push_staging"
  /\ UNCHANGED <<rootKind, files, metaFile, tmpZip, srvVer, srvHist, srvStaged, loc, prev, env,
                 callVars, parVars>>

\* variant: a failed staging request is swallowed and the loop goes on
PushStagedSwallowed ==
  /\ pc = "push_staging"
  /\ LET asset == loc.stageableAssets[loc.idx] IN
     \/ /\ srvStaged' = Put(srvStaged, NextHandle.s, asset.data)
        /\ loc' = [loc EXCEPT !.stagedByPath = Put(@, asset.path, NextHandle), !.idx = @ + 1]
        /\ run' = Answered(run, TRUE, "")
        /\ pc' = IF loc.idx = Len(loc.stageableAssets) THEN "push_submit" ELSE "push_stage"
     \/ /\ loc' = [loc EXCEPT !.idx = @ + 1]
        /\ run' = Answered(run, FALSE, "other")
        /\ pc' = IF loc.idx = Len(loc.stageableAssets) THEN "push_submit" ELSE "push_stage"
        /\ UNCHANGED srvStaged
  /\ UNCHANGED <<rootKind, files, metaFile, tmpZip, srvVer, srvHist, prev, env, callVars, parVars>>

\* the rest of the iteration: the staging call returns a handle, which is kept
\* for the asset's path, or throws
PushStaged ==
  /\ pc = "push_staging"
  /\ LET asset == loc.stageableAssets[loc.idx] IN
     \/ \E stagingId \in StageHandles :
          /\ srvStaged' = IF Truthy(stagingId) THEN Put(srvStaged, stagingId.s, asset.data)
                          ELSE srvStaged
          /\ loc' = [loc EXCEPT !.stagedByPath = Put(@, asset.path, stagingId), !.idx = @ + 1]
          /\ run' = [Answered(run, TRUE, "") EXCEPT !.net[Len(run.net)].handle = stagingId]
          /\ pc' = IF loc.idx = Len(loc.stageableAssets) THEN "push_submit" ELSE "push_stage"
     \/ \E code \in {"asset-invalid-content", "other"} :
          PushCatch(Answered(run, FALSE, code), "stage",
              IF code = "asset-invalid-content" THEN asset.path ELSE "")
  /\ UNCHANGED <<rootKind, files, metaFile, tmpZip, srvVer, srvHist, prev, env, callVars, parVars>>

\* the push transaction: the operations are built and pushAssets of the SDK
\* posts them; the server applies them if current-version is its latest version
PushSubmit ==
  /\ pc = "push_submit"
  /\ LET operations == PushOperations(loc.changedAssets, loc.stagedByPath, loc.deleteOperations)
         fields == sdkPushAssets(loc.currentVersion, operations)
         applied == ServerApply(fields, srvStaged, SrvAssets, 0)
         accepted == /\ FieldValue(fields, "current-version").s = VerName(srvVer)
                     /\ applied.ok
     IN
     \/ \* no response, or the server rejects the transaction
        /\ PushCatch(Sent(run, Request("push", FALSE, "", fields)), "push", "")
        /\ UNCHANGED <<srvVer, srvHist>>
     \/ /\ accepted /\ srvVer < MaxVersion
        /\ srvVer' = srvVer + 1
        /\ srvHist' = Append(srvHist, applied.assets)
        /\ \/ /\ loc' = [loc EXCEPT !.result =
                           [version |-> VerName(srvVer + 1),
                            assets |-> [i \in DOMAIN ServerRecords(applied.assets) |->
                                          [path |-> ServerRecords(applied.assets)[i].path,
                                           contentHash |-> ServerRecords(applied.assets)[i].hash]]]]
              /\ run' = [Sent(run, Request("push", TRUE, "", fields)) EXCEPT !.served = srvVer + 1]
              /\ pc' = "push_persist"
              /\ srvStaged' = EmptyMap
           \/ \* the response is lost on its way
              PushCatch(Sent(run, Request("push", FALSE, "", fields)), "push", "")
  /\ UNCHANGED <<rootKind, files, metaFile, tmpZip, prev, env, callVars, parVars>>

\* writeAssetMetadata opens the metadata file, which truncates it
PushPersist ==
  /\ pc = "push_persist"
  /\ \/ /\ metaFile' = Truncated
        /\ run' = [run EXCEPT !.mwrites = @ + 1]
        /\ pc' = "push_write"
        /\ UNCHANGED <<loc, srvStaged>>
     \/ \* the metadata directory or file cannot be created
        /\ PushCatch(run, "metawrite", "")
        /\ UNCHANGED metaFile
  /\ UNCHANGED <<rootKind, files, tmpZip, srvVer, srvHist, prev, env, callVars, parVars>>

\* the metadata text is written and the push reports the new version
PushWrite ==
  /\ pc = "push_write"
  /\ \/ /\ metaFile' = EncodeMetadata(loc.result.version, NewMetadataAssets(loc.result.assets))
        /\ End(run, "pushed", "", "")
     \/ \* the write fails
        /\ PushCatch(run, "metawrite", "")
        /\ UNCHANGED metaFile
  /\ UNCHANGED <<rootKind, files, tmpZip, srvVer, srvHist, prev, env, callVars, parVars>>

(***************************************************************************)
(* Specification of the CLI                                                 *)
(***************************************************************************)
Next ==
  \/ EditFile
  \/ TamperMeta
  \/ MakeRootFile
  \/ ForeignPush
  \/ PullStart
  \/ PullDownload
  \/ PullUnzipEntry
  \/ PullPrune
  \/ PullPersist
  \/ PullWrite
  \/ PushStart
  \/ PushStage
  \/ PushStaged
  \/ PushSubmit
  \/ PushPersist
  \/ PushWrite
  \/ Kill
  \/ Exit

Spec == Init /\ [][Next]_vars

(***************************************************************************)
(* Specification of direct calls of the SDK pushAssets                      *)
(***************************************************************************)
SdkPaths == {"a.json", "b.png"}
SdkStagingIds == {Undefined, Str("staging-1"), Str(""), Num(12345)}
SdkDatas == {Undefined, Buf("{}")}
SdkFilenames == {Undefined, Str("upload.bin")}
SdkVersions == {"nil", "v1"}

SdkOperations ==
  {Operation(p, o, d, s, f) :
     p \in SdkPaths, o \in {"upsert", "delete"}, d \in SdkDatas, s \in SdkStagingIds,
     f \in SdkFilenames}

\* the caller chooses the version and adds an operation to the argument list
SdkAddOperation ==
  /\ sdkOut = <<>>
  /\ Len(sdkIn.operations) < MaxOps
  /\ \E v \in SdkVersions, op \in SdkOperations :
       sdkIn' = [currentVersion |-> v, operations |-> Append(sdkIn.operations, op)]
  /\ UNCHANGED <<sdkOut, fnIn, fnOut, cliVars, parVars>>

\* pushAssets of the SDK is called with these arguments
SdkPushAssets ==
  /\ sdkOut = <<>>
  /\ sdkIn.currentVersion # ""
  /\ sdkOut' = sdkPushAssets(sdkIn.currentVersion, sdkIn.operations)
  /\ UNCHANGED <<sdkIn, fnIn, fnOut, cliVars, parVars>>

SdkNext == SdkAddOperation \/ SdkPushAssets

SpecSdk == Init /\ [][SdkNext]_vars

(***************************************************************************)
(* Specification of direct calls of the helper functions                    *)
(***************************************************************************)
StoreVersions == {"", "nil", "v1"}
StoreHashes == {"", "h1", "h2"}

\* the record lists with unique paths
StoreRecords == {[path |-> p, hash |-> h] : p \in AssetPaths, h \in StoreHashes}
StoreRecordLists ==
  {<<>>}
  \cup {<<r>> : r \in StoreRecords}
  \cup {l \in StoreRecords \X StoreRecords : l[1].path # l[2].path}

\* writeAssetMetadata is called with a version and a record list
StoreWrite ==
  /\ fnIn = FnNone
  /\ \E version \in StoreVersions, assets \in StoreRecordLists :
       /\ fnIn' = [fn |-> "store", version |-> version, assets |-> assets]
       /\ metaFile' = EncodeMetadata(version, assets)
  /\ UNCHANGED <<rootKind, files, tmpZip, srvVer, srvHist, srvStaged, pc, loc, run, prev, env,
                 sdkIn, sdkOut, fnOut, parVars>>

\* readAssetMetadata is called on the file written
StoreRead ==
  /\ fnIn.fn = "store" /\ fnOut = FnNone
  /\ fnOut' = [fn |-> "store", meta |-> readAssetMetadata(metaFile)]
  /\ UNCHANGED <<cliVars, parVars, sdkIn, sdkOut, fnIn>>

HashBuffers == {"", "a", "b", "ab", "1|a", "{}"}

\* calculateHash is called on two buffers
HashCall ==
  /\ fnIn = FnNone
  /\ \E b1 \in HashBuffers, b2 \in HashBuffers :
       /\ fnIn' = [fn |-> "hash", b1 |-> b1, b2 |-> b2]
       /\ fnOut' = [fn |-> "hash", h1 |-> calculateHash(b1), h2 |-> calculateHash(b2)]
  /\ UNCHANGED <<cliVars, parVars, sdkIn, sdkOut>>

\* the file trees over the paths and contents in use
ScanTrees == UNION {[S -> Contents] : S \in SUBSET AssetPaths}

\* readLocalAssets is called on a directory
ScanCall ==
  /\ fnIn = FnNone
  /\ \E fs \in ScanTrees :
       /\ fnIn' = [fn |-> "scan", fs |-> fs]
       /\ fnOut' = [fn |-> "scan", assets |-> readLocalAssets(fs)]
  /\ UNCHANGED <<cliVars, parVars, sdkIn, sdkOut>>

DiffHashes == {"h1", "h2"}
DiffAssets == {[path |-> p, data |-> "", hash |-> h] : p \in AssetPaths, h \in DiffHashes}
\* the lists of local assets, one asset per path, in any order
DiffLocalLists ==
  {<<>>}
  \cup {<<a>> : a \in DiffAssets}
  \cup {l \in DiffAssets \X DiffAssets : l[1].path # l[2].path}

\* filterChangedAssets is called with the records of a metadata file and a
\* list of local assets
DiffCall ==
  /\ fnIn = FnNone
  /\ \E existingMeta \in StoreRecordLists, localAssets \in DiffLocalLists :
       /\ fnIn' = [fn |-> "diff", existingMeta |-> existingMeta, localAssets |-> localAssets]
       /\ fnOut' = [fn |-> "diff", changed |-> filterChangedAssets(existingMeta, localAssets)]
  /\ UNCHANGED <<cliVars, parVars, sdkIn, sdkOut>>

\* the directories with asset files, metadata and platform files, each file
\* with the same bytes
WalkTrees == {[p \in S |-> "PNG"] : S \in SUBSET Paths}

\* readLocalAssets and listLocalAssetPaths are called on the same directory
WalkCall ==
  /\ fnIn = FnNone
  /\ \E fs \in WalkTrees :
       /\ fnIn' = [fn |-> "walk", fs |-> fs]
       /\ fnOut' = [fn |-> "walk", assets |-> readLocalAssets(fs),
                    paths |-> listLocalAssetPaths(fs)]
  /\ UNCHANGED <<cliVars, parVars, sdkIn, sdkOut>>

FnNext == StoreWrite \/ StoreRead \/ HashCall \/ ScanCall \/ DiffCall \/ WalkCall

SpecFn == Init /\ [][FnNext]_vars

(***************************************************************************)
(* Specification of pushes of a directory copied from elsewhere             *)
(***************************************************************************)
\* the trees to copy: valid JSON in a.json, images, and JSON or other bytes in
\* C.JSON
CopyTrees ==
  {fs \in ScanTrees :
     \A p \in DOMAIN fs : fs[p] = (IF p = "a.json" THEN "{}" ELSE "PNG") \/ p = "C.JSON"}

\* the operator copies a tree of asset files into a directory that does not
\* exist yet
CopyTree ==
  /\ pc = "idle" /\ rootKind = "absent"
  /\ \E fs \in CopyTrees : files' = fs
  /\ rootKind' = "dir"
  /\ Forget
  /\ UNCHANGED <<metaFile, tmpZip, srvVer, srvHist, srvStaged, pc, loc, env, callVars, parVars>>

PushNext ==
  \/ CopyTree
  \/ EditFile
  \/ PushStart
  \/ PushStage
  \/ PushStaged
  \/ PushSubmit
  \/ PushPersist
  \/ PushWrite
  \/ Kill
  \/ Exit

SpecPush == Init /\ [][PushNext]_vars

(***************************************************************************)
(* Specification of two pull invocations that run side by side              *)
(***************************************************************************)
MaxClock == 2

\* the clock moves on by a millisecond
ParTick ==
  /\ clock < MaxClock
  /\ clock' = clock + 1
  /\ UNCHANGED <<cliVars, callVars, tmpDir, procs>>

\* the name of the temporary archive, from the clock alone
createTempZipPath(now) == "assets-" \o NumToStr(now) \o ".zip"

\* pullAssets up to the download: the invocation names its archive
ParStart(p) ==
  /\ procs[p].pc = "idle"
  /\ procs' = [procs EXCEPT ![p].pc = "download", ![p].zip = createTempZipPath(clock)]
  /\ UNCHANGED <<cliVars, callVars, clock, tmpDir>>

\* getAssetsZipStream, then createWriteStream opens the archive, which creates
\* it or truncates the file of that name
ParOpen(p) ==
  /\ procs[p].pc = "download"
  /\ \/ LET zip == procs[p].zip
            old == IF zip \in DOMAIN tmpDir THEN tmpDir[zip] ELSE NoArchive
        IN /\ tmpDir' = Put(tmpDir, zip, [by |-> {p}, open |-> old.open \cup {p}])
           /\ procs' = [procs EXCEPT ![p].pc = "streaming",
                                     ![p].over = (old.by \cup old.open) \ {p}]
     \/ \* the request fails before the archive is opened
        /\ procs' = [procs EXCEPT ![p].pc = "finally", ![p].out = "error"]
        /\ UNCHANGED tmpDir
  /\ UNCHANGED <<cliVars, callVars, clock>>

\* the pipeline into the archive ends: the bytes of the stream are in the file
\* the descriptor names, beside what another stream put there since
ParStreamEnd(p) ==
  /\ procs[p].pc = "streaming"
  /\ LET zip == procs[p].zip IN
     /\ tmpDir' = IF zip \in DOMAIN tmpDir
                  THEN [tmpDir EXCEPT ![zip] = [by |-> @.by \cup {p}, open |-> @.open \ {p}]]
                  ELSE tmpDir
     /\ \/ procs' = [procs EXCEPT ![p].pc = "unzip"]
        \/ \* the stream breaks
           procs' = [procs EXCEPT ![p].pc = "finally", ![p].out = "error"]
  /\ UNCHANGED <<cliVars, callVars, clock>>

\* unzipAssets reads the archive of that name, whatever it holds now
ParUnzip(p) ==
  /\ procs[p].pc = "unzip"
  /\ LET zip == procs[p].zip IN
     IF zip \in DOMAIN tmpDir /\ tmpDir[zip].open = {} /\ Cardinality(tmpDir[zip].by) = 1
     THEN procs' = [procs EXCEPT ![p].pc = "finally", ![p].got = tmpDir[zip].by,
                                 ![p].out = "pulled"]
     ELSE \* no file of that name, or one that is no whole archive
          procs' = [procs EXCEPT ![p].pc = "finally", ![p].out = "error"]
  /\ UNCHANGED <<cliVars, callVars, clock, tmpDir>>

\* the finally block: the file of that name is unlinked when there is one
ParFinally(p) ==
  /\ procs[p].pc = "finally"
  /\ LET zip == procs[p].zip IN
     IF zip \in DOMAIN tmpDir
     THEN /\ tmpDir' = Drop(tmpDir, {zip})
          /\ procs' = [procs EXCEPT ![p].pc = "done",
                                    ![p].del = (tmpDir[zip].by \cup tmpDir[zip].open) \ {p}]
     ELSE /\ procs' = [procs EXCEPT ![p].pc = "done"]
          /\ UNCHANGED tmpDir
  /\ UNCHANGED <<cliVars, callVars, clock>>

ParNext ==
  \/ ParTick
  \/ \E p \in Procs : ParStart(p)
  \/ \E p \in Procs : ParOpen(p)
  \/ \E p \in Procs : ParStreamEnd(p)
  \/ \E p \in Procs : ParUnzip(p)
  \/ \E p \in Procs : ParFinally(p)

SpecPar == Init /\ [][ParNext]_vars

(***************************************************************************)
(* Properties                                                               *)
(***************************************************************************)
LastRequest == run.net[Len(run.net)]
Succeeded == run.outcome \in {"pulled", "pushed", "uptodate"}
BundlePaths == DOMAIN srvHist[run.served]
MetaNow == readAssetMetadata(metaFile)
MetaBefore == readAssetMetadata(run.metaBefore)
RecordedPaths(m) == {m.assets[i].path : i \in DOMAIN m.assets}
ScannedBefore == {p \in DOMAIN run.filesBefore : Scanned(p)}
InvalidJsonBefore ==
  {p \in ScannedBefore : endsWith(p, ".json") /\ ~JsonParses(run.filesBefore[p])}

\* C1: when a staging request or the push transaction of a push fails, the
\* metadata file is what it was before the push, and a push touches the
\* metadata file only after its push transaction got a successful response
FailedPushKeepsMetadata ==
  run.cmd = "push" =>
    /\ (\E i \in DOMAIN run.net : ~run.net[i].ok) =>
         metaFile = run.metaBefore /\ run.mwrites = 0
    /\ (run.mwrites > 0 \/ metaFile # run.metaBefore) =>
         run.net # <<>> /\ LastRequest.kind = "push" /\ LastRequest.ok

\* a push over existing metadata staged an asset and then its transaction failed
FailedPushWitness ==
  /\ pc = "done" /\ run.cmd = "push" /\ run.outcome = "error"
  /\ Len(run.net) >= 2 /\ run.net[1].kind = "stage" /\ run.net[1].ok
  /\ LastRequest.kind = "push" /\ ~LastRequest.ok
  /\ run.metaBefore.kind = "edn" /\ metaFile = run.metaBefore

\* C2: the second of two successful pulls in a row with the same options and
\* no server-side change writes no asset file and no metadata and reports up
\* to date
SecondPullWritesNothing ==
  pc = "done" /\ run.cmd = "pull" /\ prev.cmd = "pull" /\ prev.prune = run.prune
    /\ prev.reqVer = run.reqVer /\ Succeeded =>
      run.fwrites = {} /\ run.mwrites = 0 /\ run.outcome = "uptodate"

\* C3: the second of two pushes in a row with the same options and no local
\* edit in between, the first one successful, finds every scanned file recorded
\* with its hash and every record scanned, sends no request, writes no metadata
\* and reports up to date
SecondPushDoesNothing ==
  pc = "done" /\ run.cmd = "push" /\ prev.cmd = "push" /\ prev.prune = run.prune =>
    /\ \A p \in ScannedBefore :
         \E i \in DOMAIN MetaBefore.assets :
           MetaBefore.assets[i] = [path |-> p, hash |-> calculateHash(run.filesBefore[p])]
    /\ run.prune => RecordedPaths(MetaBefore) \subseteq ScannedBefore
    /\ run.net = <<>>
    /\ run.mwrites = 0 /\ metaFile = run.metaBefore
    /\ run.outcome = "uptodate"

\* a push of a non-empty directory follows a successful push of it
SecondPushWitness ==
  /\ pc = "done" /\ run.cmd = "push" /\ prev.cmd = "push" /\ prev.prune = run.prune
  /\ run.outcome = "uptodate"
  /\ ScannedBefore # {} /\ run.metaBefore.kind = "edn"

\* C4: when a scanned file whose path ends in .json does not parse as JSON, a
\* push sends no request, leaves the metadata file as it was and fails with a
\* validation error that names such a file
InvalidJsonStopsPush ==
  run.cmd = "push" /\ rootKind = "dir" /\ InvalidJsonBefore # {} =>
    /\ run.net = <<>>
    /\ run.mwrites = 0 /\ metaFile = run.metaBefore
    /\ pc = "done" /\ run.outcome = "error" /\ run.failedAt = "validate"
    /\ run.errPath \in InvalidJsonBefore

\* a push fails on an invalid JSON file while a valid changed asset exists
InvalidJsonWitness ==
  /\ pc = "done" /\ run.cmd = "push" /\ run.failedAt = "validate"
  /\ run.errPath = "a.json"
  /\ "img/b.png" \in ScannedBefore
  /\ \A i \in DOMAIN MetaBefore.assets : MetaBefore.assets[i].path # "img/b.png"

\* C5: in a pull the metadata file is written last, after every asset file
\* write and every prune deletion, and a pull that fails or is killed leaves
\* the metadata file as it was
PullMetadataLastWrite ==
  run.cmd = "pull" =>
    /\ metaFile # run.metaBefore => pc \in {"pull_write", "done"}
    /\ run.outcome \in {"error", "killed"} => metaFile = run.metaBefore

\* C6: after a pull or a push that persisted metadata, the metadata file holds
\* the version the server returned and exactly one record per asset of that
\* version, with the server's hash
PersistedMetadataIsServerView ==
  pc = "done" /\ run.outcome \in {"pulled", "pushed"} =>
    /\ MetaNow.ok
    /\ MetaNow.version = VerName(run.served)
    /\ Range(MetaNow.assets) =
         {[path |-> p, hash |-> ServerHash(srvHist[run.served][p])] : p \in BundlePaths}
    /\ Len(MetaNow.assets) = Cardinality(BundlePaths)

\* a push over metadata with a record the server no longer returns
PersistedAfterPushWitness ==
  /\ pc = "done" /\ run.cmd = "push" /\ run.outcome = "pushed"
  /\ RecordedPaths(MetaBefore) \ BundlePaths # {}

\* a pull over metadata with a record the bundle does not have
PersistedAfterPullWitness ==
  /\ pc = "done" /\ run.cmd = "pull" /\ run.outcome = "pulled"
  /\ RecordedPaths(MetaBefore) \ BundlePaths # {}

\* C7: after a successful pull with prune, no file that was in the local tree
\* before the pull and is not in the pulled bundle exists any more, and the
\* metadata has no record of it
PrunedPullRemovesExtraFiles ==
  pc = "done" /\ run.cmd = "pull" /\ run.prune /\ Succeeded =>
    \A p \in ScannedBefore \ BundlePaths :
      p \notin DOMAIN files /\ p \notin RecordedPaths(MetaNow)

\* a pull with prune of the version the metadata already names removed a file
\* the metadata did not track
PrunedPullWitness ==
  /\ pc = "done" /\ run.cmd = "pull" /\ run.prune /\ run.outcome = "pulled"
  /\ MetaBefore.ok /\ MetaBefore.version = VerName(run.served)
  /\ \E p \in ScannedBefore \ BundlePaths :
       p \notin RecordedPaths(MetaBefore) /\ p \in run.fdeletes

\* C8: a push without readable metadata takes every scanned asset as changed
\* and posts current-version "nil"; a push with metadata posts the version of
\* the metadata
FirstPushTakesAll ==
  run.cmd = "push" /\ rootKind = "dir" /\ InvalidJsonBefore = {} =>
    /\ ~MetaBefore.ok /\ ScannedBefore # {} =>
         /\ run.outcome # "uptodate"
         /\ pc \in {"push_stage", "push_submit"} =>
              /\ loc.currentVersion = "nil"
              /\ {loc.changedAssets[i].path : i \in DOMAIN loc.changedAssets} = ScannedBefore
    /\ \A i \in DOMAIN run.net :
         run.net[i].kind = "push" =>
           /\ FieldValue(run.net[i].fields, "current-version") =
                Str(IF MetaBefore.ok THEN MetaBefore.version ELSE "nil")
           /\ ~MetaBefore.ok =>
                \A p \in ScannedBefore :
                  \E k \in 0..(Cardinality(ScannedBefore) - 1) :
                    /\ HasField(run.net[i].fields, "path-" \o NumToStr(k))
                    /\ FieldValue(run.net[i].fields, "path-" \o NumToStr(k)) = Str(p)
                    /\ FieldValue(run.net[i].fields, "op-" \o NumToStr(k)) = Str("upsert")

\* a push over an unreadable metadata file posted its upserts with "nil"
FirstPushWitness ==
  /\ pc = "done" /\ run.cmd = "push" /\ run.metaBefore.kind = "garbage"
  /\ ScannedBefore # {}
  /\ run.net # <<>> /\ LastRequest.kind = "push"
  /\ FieldValue(LastRequest.fields, "current-version") = Str("nil")

\* a push over metadata posted the version of the metadata
LaterPushWitness ==
  /\ pc = "done" /\ run.cmd = "push" /\ MetaBefore.ok
  /\ run.net # <<>> /\ LastRequest.kind = "push"
  /\ FieldValue(LastRequest.fields, "current-version") = Str(MetaBefore.version)

\* C10: a push that follows a successful pull into an empty directory, with no
\* local edit in between, sends no request and reports up to date
PushAfterPullIsUpToDate ==
  pc = "done" /\ run.cmd = "push" /\ prev.cmd = "pull" /\ prev.emptyDir =>
    run.net = <<>> /\ run.mwrites = 0 /\ run.outcome = "uptodate"

\* such a push scanned a JSON asset and another asset
PushAfterPullWitness ==
  /\ pc = "done" /\ run.cmd = "push" /\ prev.cmd = "pull" /\ prev.emptyDir
  /\ run.outcome = "uptodate"
  /\ Cardinality(ScannedBefore) = 2

SdkPos(name) == CHOOSE k \in DOMAIN sdkOut : sdkOut[k].name = name
SdkStaged(op) == op.op = "upsert" /\ Truthy(op.stagingId)
SdkInline(op) == op.op = "upsert" /\ ~Truthy(op.stagingId) /\ Truthy(op.data)

\* C9: the request of the SDK pushAssets starts with current-version and has,
\* for each operation i in input order, path-i and op-i, then staging-id-i as
\* a string for an upsert with a staging handle, or data-raw-i with a filename
\* for an upsert with data and no handle, and nothing more for a delete
SdkRequestFields ==
  sdkOut # <<>> =>
    LET ops == sdkIn.operations IN
    /\ sdkOut[1] = Field("current-version", Str(sdkIn.currentVersion), Undefined)
    /\ \A k, l \in DOMAIN sdkOut : sdkOut[k].name = sdkOut[l].name => k = l
    /\ Len(sdkOut) = 1 + 2 * Len(ops)
                       + Cardinality({i \in DOMAIN ops : SdkStaged(ops[i]) \/ SdkInline(ops[i])})
    /\ \A i \in DOMAIN ops :
         LET n == NumToStr(i - 1)
             op == ops[i]
         IN /\ HasField(sdkOut, "path-" \o n) /\ HasField(sdkOut, "op-" \o n)
            /\ FieldValue(sdkOut, "path-" \o n) = Str(op.path)
            /\ FieldValue(sdkOut, "op-" \o n) = Str(op.op)
            /\ SdkPos("op-" \o n) = SdkPos("path-" \o n) + 1
            /\ i > 1 => SdkPos("op-" \o NumToStr(i - 2)) < SdkPos("path-" \o n)
            /\ HasField(sdkOut, "staging-id-" \o n) <=> SdkStaged(op)
            /\ HasField(sdkOut, "data-raw-" \o n) <=> SdkInline(op)
            /\ SdkStaged(op) =>
                 /\ SdkPos("staging-id-" \o n) = SdkPos("op-" \o n) + 1
                 /\ FieldValue(sdkOut, "staging-id-" \o n).t = "string"
                 /\ op.stagingId.t = "string" =>
                      FieldValue(sdkOut, "staging-id-" \o n) = op.stagingId
                 /\ op.stagingId = Num(12345) =>
                      FieldValue(sdkOut, "staging-id-" \o n) = Str("12345")
            /\ SdkInline(op) =>
                 LET f == sdkOut[SdkPos("data-raw-" \o n)] IN
                 /\ SdkPos("data-raw-" \o n) = SdkPos("op-" \o n) + 1
                 /\ f.value = op.data
                 /\ f.filename = IF op.filename = Undefined THEN Str(op.path) ELSE op.filename

\* a call with a delete and an upsert whose numeric staging handle comes with data
SdkRequestWitness ==
  /\ sdkOut # <<>> /\ Len(sdkIn.operations) = 2
  /\ sdkIn.operations[1].op = "delete"
  /\ sdkIn.operations[2].op = "upsert"
  /\ sdkIn.operations[2].stagingId = Num(12345)
  /\ sdkIn.operations[2].data # Undefined
  /\ HasField(sdkOut, "staging-id-1") /\ ~HasField(sdkOut, "data-raw-1")

BaseVersion == IF MetaBefore.ok THEN MetaBefore.version ELSE "nil"
PushRequests == {i \in DOMAIN run.net : run.net[i].kind = "push"}

\* C11: the push that follows a push killed between the server's acceptance and
\* the metadata write posts the old version, which is no longer the server's;
\* the server's rejection ends it with an error and a failure exit, the
\* metadata file as it was
StalePushRejected ==
  pc = "done" /\ run.cmd = "push" /\ prev.cmd = "push_killed" /\ run.outcome # "killed" =>
    /\ BaseVersion # VerName(srvVer)
    /\ \A i \in PushRequests :
         /\ FieldValue(run.net[i].fields, "current-version") = Str(BaseVersion)
         /\ ~run.net[i].ok
    /\ PushRequests # {} => run.outcome = "error" /\ run.failedAt = "push"
    /\ prev.prune = run.prune =>
         /\ run.outcome = "error"
         /\ run.net # <<>> /\ ~LastRequest.ok
    /\ run.outcome \in {"error", "uptodate"}
    /\ run.mwrites = 0 /\ metaFile = run.metaBefore

\* the server rejected the push that followed a killed push over version v1
StalePushWitness ==
  /\ pc = "done" /\ run.cmd = "push" /\ prev.cmd = "push_killed"
  /\ MetaBefore.ok /\ MetaBefore.version = "v1" /\ srvVer = 2
  /\ run.net # <<>> /\ LastRequest.kind = "push" /\ ~LastRequest.ok
  /\ run.outcome = "error"

NoPriorState == run.metaBefore.kind \in {"absent", "garbage", "empty"}
UpsertPaths(fields) ==
  {p \in Paths : \E k \in 0..(Len(fields) - 1) :
     /\ HasField(fields, "path-" \o NumToStr(k))
     /\ FieldValue(fields, "path-" \o NumToStr(k)) = Str(p)
     /\ FieldValue(fields, "op-" \o NumToStr(k)) = Str("upsert")}
DeletePaths(fields) ==
  {p \in Paths : \E k \in 0..(Len(fields) - 1) :
     /\ HasField(fields, "path-" \o NumToStr(k))
     /\ FieldValue(fields, "path-" \o NumToStr(k)) = Str(p)
     /\ FieldValue(fields, "op-" \o NumToStr(k)) = Str("delete")}

\* C12: a metadata file that is absent or does not parse never fails a pull
\* or a push; the pull takes the bundle as an update and the push posts "nil"
\* with an upsert of every scanned asset and no delete
UnreadableMetadataIsNoState ==
  NoPriorState /\ run.cmd \in {"pull", "push"} =>
    /\ pc \notin {"idle", "done"} => loc.currentMeta = NullMeta
    /\ run.failedAt # "readmeta"
    /\ run.cmd = "pull" /\ pc = "done" =>
         /\ run.outcome = "error" /\ run.failedAt # "precheck" => run.net # <<>>
         /\ Succeeded =>
              /\ run.outcome = "pulled" /\ run.mwrites = 1
              /\ MetaNow.ok /\ MetaNow.version = VerName(run.served)
    /\ run.cmd = "push" /\ rootKind = "dir" /\ InvalidJsonBefore = {} =>
         /\ pc = "done" /\ ScannedBefore = {} => run.outcome = "uptodate"
         /\ pc = "done" /\ ScannedBefore # {} /\ run.outcome # "killed" => run.net # <<>>
         /\ \A i \in PushRequests :
              /\ FieldValue(run.net[i].fields, "current-version") = Str("nil")
              /\ UpsertPaths(run.net[i].fields) = ScannedBefore
              /\ DeletePaths(run.net[i].fields) = {}

\* a pull over a metadata file that does not parse persisted the bundle's version
UnreadablePullWitness ==
  /\ pc = "done" /\ run.cmd = "pull" /\ run.metaBefore.kind = "garbage"
  /\ run.outcome = "pulled" /\ MetaNow.ok

\* a push with prune over a metadata file that does not parse posted "nil"
UnreadablePushWitness ==
  /\ pc = "done" /\ run.cmd = "push" /\ run.prune /\ run.metaBefore.kind \in {"garbage", "empty"}
  /\ PushRequests # {}

NothingDone ==
  /\ run.net = <<>>
  /\ run.fwrites = {} /\ run.fdeletes = {} /\ run.mwrites = 0
  /\ files = run.filesBefore /\ metaFile = run.metaBefore
  /\ rootKind = run.rootBefore

\* C13: a pull creates a missing directory and fails on a path that is not a
\* directory; a push fails on a path that is missing or not a directory; each
\* of these failures comes before any request and any file or metadata write
DirectoryChecks ==
  /\ run.cmd = "pull" /\ run.rootBefore = "absent" =>
       rootKind = "dir" /\ run.failedAt # "precheck"
  /\ run.cmd \in {"pull", "push"} /\ run.rootBefore = "dir" => run.failedAt # "precheck"
  /\ \/ run.cmd = "pull" /\ run.rootBefore = "file"
     \/ run.cmd = "push" /\ run.rootBefore \in {"absent", "file"}
     => /\ pc = "done" /\ run.outcome = "error" /\ run.failedAt = "precheck"
        /\ NothingDone

\* a push of a path that does not exist failed
PushMissingDirWitness ==
  pc = "done" /\ run.cmd = "push" /\ run.rootBefore = "absent" /\ run.outcome = "error"

\* a push of a path that is a file failed
PushOnFileWitness ==
  pc = "done" /\ run.cmd = "push" /\ run.rootBefore = "file" /\ run.outcome = "error"

\* a pull of a path that is a file failed
PullOnFileWitness ==
  pc = "done" /\ run.cmd = "pull" /\ run.rootBefore = "file" /\ run.outcome = "error"

\* a pull created the directory and wrote a file into it
PullCreatesDirWitness ==
  pc = "done" /\ run.cmd = "pull" /\ run.rootBefore = "absent" /\ run.outcome = "pulled"
  /\ run.fwrites # {}

RoundTripEqual ==
  /\ fnOut.meta.ok
  /\ fnOut.meta.version = fnIn.version
  /\ Range(fnOut.meta.assets) = Range(fnIn.assets)

\* C14 as stated: for every version string and every record list with unique
\* paths, the metadata read back has the version and the records written
RoundTripEveryVersion == fnOut.fn = "store" => RoundTripEqual

\* C14: for every version string but the empty one and every record list with
\* unique paths, the metadata read back has the version and the records
\* written; with the empty version nothing is read back
RoundTripNonEmptyVersion ==
  fnOut.fn = "store" =>
    IF fnIn.version # "" THEN RoundTripEqual ELSE fnOut.meta = NullMeta

\* two records under version v1 were written and read back
RoundTripWitness ==
  /\ fnOut.fn = "store" /\ fnIn.version = "v1" /\ Len(fnIn.assets) = 2
  /\ fnOut.meta.ok

\* the text calculateHash is to digest
LengthPrefixed(data) == NumToStr(Len(data)) \o "|" \o data

\* C15: the hash of a buffer is the SHA-1 digest of its byte length, "|" and
\* its bytes; equal buffers have equal hashes, different buffers different
\* ones, the empty buffer and a one-byte buffer too; the hash of every scanned
\* asset, which the diff compares with the recorded one, is this hash
HashIsLengthPrefixedSha1 ==
  /\ fnOut.fn = "hash" =>
       /\ fnOut.h1 = sha1(LengthPrefixed(fnIn.b1))
       /\ fnOut.h2 = sha1(LengthPrefixed(fnIn.b2))
       /\ fnIn.b1 = fnIn.b2 <=> fnOut.h1 = fnOut.h2
  /\ fnOut.fn = "scan" =>
       /\ {fnOut.assets[i].path : i \in DOMAIN fnOut.assets} = DOMAIN fnIn.fs
       /\ \A i \in DOMAIN fnOut.assets :
            LET a == fnOut.assets[i] IN
            a.data = fnIn.fs[a.path] /\ a.hash = sha1(LengthPrefixed(a.data))

\* the empty buffer and a one-byte buffer were hashed
HashWitness ==
  /\ fnOut.fn = "hash" /\ fnIn.b1 = "" /\ fnIn.b2 = "a"
  /\ fnOut.h1 = sha1("0|") /\ fnOut.h2 = sha1("1|a")

\* a directory with two files was scanned
HashScanWitness ==
  fnOut.fn = "scan" /\ Len(fnOut.assets) = 2

Recorded(existingMeta, path) == \E i \in DOMAIN existingMeta : existingMeta[i].path = path
RecordedWith(existingMeta, path, hash) ==
  \E i \in DOMAIN existingMeta : existingMeta[i].path = path /\ existingMeta[i].hash = hash
IndexIn(q, x) == CHOOSE i \in DOMAIN q : q[i] = x

\* C16: the diff returns exactly the local assets whose path has no record or
\* whose hash differs from the recorded one, never an asset recorded with its
\* hash, each once and in the order of the local list
DiffIsExact ==
  fnOut.fn = "diff" =>
    LET existingMeta == fnIn.existingMeta
        localAssets == fnIn.localAssets
        changed == fnOut.changed
    IN /\ Range(changed) =
            {a \in Range(localAssets) :
               \/ ~Recorded(existingMeta, a.path)
               \/ \E i \in DOMAIN existingMeta :
                    existingMeta[i].path = a.path /\ existingMeta[i].hash # a.hash}
       /\ \A a \in Range(changed) : ~RecordedWith(existingMeta, a.path, a.hash)
       /\ \A i, j \in DOMAIN changed :
            i < j => IndexIn(localAssets, changed[i]) < IndexIn(localAssets, changed[j])

\* of two recorded local assets one has another hash than recorded
DiffWitness ==
  /\ fnOut.fn = "diff"
  /\ Len(fnIn.existingMeta) = 2 /\ Len(fnIn.localAssets) = 2
  /\ \A i \in 1..2 : Recorded(fnIn.existingMeta, fnIn.localAssets[i].path)
  /\ Len(fnOut.changed) = 1 /\ fnOut.changed[1] = fnIn.localAssets[2]

ValidPush == run.cmd = "push" /\ rootKind = "dir" /\ InvalidJsonBefore = {}
RemovedLocally == RecordedPaths(MetaBefore) \ ScannedBefore
UnchangedLocally ==
  \A p \in ScannedBefore :
    RecordedWith(MetaBefore.assets, p, calculateHash(run.filesBefore[p]))

\* C17: a push posts a delete for a path exactly if prune is requested, the
\* metadata records the path and the scan did not find it; a push without
\* prune posts no delete and reports up to date when removed tracked files are
\* the only difference
DeleteOnlyWithPrune ==
  ValidPush =>
    /\ \A i \in PushRequests :
         DeletePaths(run.net[i].fields) = IF run.prune THEN RemovedLocally ELSE {}
    /\ pc = "done" /\ run.prune /\ RemovedLocally # {} /\ run.outcome # "killed" =>
         run.net # <<>> /\ run.outcome # "uptodate"
    /\ ~run.prune /\ UnchangedLocally =>
         pc = "done" /\ run.net = <<>> /\ run.outcome = "uptodate"

\* a push without prune found a tracked file removed and reported up to date
NoPruneWitness ==
  /\ pc = "done" /\ run.cmd = "push" /\ ~run.prune
  /\ RemovedLocally # {}
  /\ run.outcome = "uptodate"

\* a push with prune posted the delete of a removed tracked file
PruneDeleteWitness ==
  /\ pc = "done" /\ run.cmd = "push" /\ run.prune
  /\ PushRequests # {} /\ DeletePaths(LastRequest.fields) # {}

\* C18: a successful pull reports up to date exactly when the version of the
\* downloaded bundle is the version of the local metadata and pruning deleted
\* no file, and it then leaves the metadata file alone; every other successful
\* pull writes the metadata of the bundle and reports the pulled version
PullReportsUpToDateExactly ==
  pc = "done" /\ run.cmd = "pull" /\ Succeeded =>
    LET sameVersion == MetaBefore.ok /\ MetaBefore.version = VerName(run.served) IN
    /\ run.outcome = "uptodate" <=> (sameVersion /\ run.fdeletes = {})
    /\ run.outcome = "uptodate" => run.mwrites = 0 /\ metaFile = run.metaBefore
    /\ run.outcome = "pulled" =>
         /\ run.mwrites = 1
         /\ MetaNow.ok /\ MetaNow.version = VerName(run.served)
         /\ RecordedPaths(MetaNow) = BundlePaths

\* a pull of the recorded version pruned a file and reported the version
SameVersionPrunedWitness ==
  /\ pc = "done" /\ run.cmd = "pull" /\ run.outcome = "pulled"
  /\ MetaBefore.ok /\ MetaBefore.version = VerName(run.served)
  /\ run.fdeletes # {} /\ run.mwrites = 1

\* a pull of the recorded version with nothing to prune reported up to date
SameVersionUpToDateWitness ==
  /\ pc = "done" /\ run.cmd = "pull" /\ run.outcome = "uptodate"
  /\ run.prune /\ DOMAIN files # {}

ChangedBefore ==
  {p \in ScannedBefore :
     ~RecordedWith(MetaBefore.assets, p, calculateHash(run.filesBefore[p]))}
JsonLike(p) == Len(p) >= 5 /\ toLowerCase(SubSeq(p, Len(p) - 4, Len(p))) = ".json"
StageRequests == {i \in DOMAIN run.net : run.net[i].kind = "stage"}
OpIndexes(fields, p) ==
  {k \in 0..(Len(fields) - 1) :
     /\ HasField(fields, "path-" \o NumToStr(k))
     /\ FieldValue(fields, "path-" \o NumToStr(k)) = Str(p)}

\* C19: a push sends a changed asset to the staging endpoint exactly if its
\* path does not end in .json, whatever the case of the suffix; a changed
\* asset whose path ends in .json is never staged, and its upsert in the push
\* transaction carries the file data inline and no staging handle
StagingIsForNonJson ==
  run.cmd = "push" /\ run.net # <<>> =>
    LET changed == ChangedBefore IN
    /\ \A i \in StageRequests :
         run.net[i].path \in changed /\ ~JsonLike(run.net[i].path)
    /\ \A i \in PushRequests :
         \A p \in changed :
           IF JsonLike(p)
           THEN /\ OpIndexes(run.net[i].fields, p) # {}
                /\ \A k \in OpIndexes(run.net[i].fields, p) :
                     /\ FieldValue(run.net[i].fields, "op-" \o NumToStr(k)) = Str("upsert")
                     /\ HasField(run.net[i].fields, "data-raw-" \o NumToStr(k))
                     /\ FieldValue(run.net[i].fields, "data-raw-" \o NumToStr(k))
                          = Buf(run.filesBefore[p])
                     /\ ~HasField(run.net[i].fields, "staging-id-" \o NumToStr(k))
           ELSE \E j \in StageRequests : j < i /\ run.net[j].path = p /\ run.net[j].ok

\* a push of changed a.json, C.JSON and two images staged the images only
MixedCasePushWitness ==
  /\ pc = "done" /\ run.cmd = "push" /\ run.outcome = "pushed"
  /\ {"a.json", "C.JSON", "img/b.png", "img/d.png"} \subseteq ChangedBefore
  /\ {run.net[i].path : i \in StageRequests} = {"img/b.png", "img/d.png"}

\* a push over existing metadata left an unchanged image unstaged
UnchangedNotStagedWitness ==
  /\ pc = "done" /\ run.cmd = "push" /\ run.outcome = "pushed"
  /\ "img/d.png" \in ScannedBefore \ ChangedBefore
  /\ "img/b.png" \in ChangedBefore

\* the changed assets that are no JSON, in the order of the scan
StageableBefore == InOrder({p \in ChangedBefore : ~JsonLike(p)})

\* C20: a failed staging request ends the push: it is the last request, so no
\* later asset is staged and no push transaction is sent; the assets staged
\* before it are the ones before it in scan order; the metadata file is as it
\* was; the push exits with an error, which names the asset's path, with the
\* advice to fix the file and rerun, when the code is asset-invalid-content
StagingFailureAborts ==
  run.cmd = "push" /\ run.net # <<>> =>
    LET stageable == StageableBefore IN
    \A i \in StageRequests :
      /\ i <= Len(stageable) /\ run.net[i].path = stageable[i]
      /\ run.net[i].done /\ ~run.net[i].ok =>
           /\ i = Len(run.net)
           /\ \A j \in 1..(i - 1) : run.net[j].kind = "stage" /\ run.net[j].ok
           /\ pc = "done" /\ run.outcome = "error" /\ run.failedAt = "stage"
           /\ run.mwrites = 0 /\ metaFile = run.metaBefore
           /\ run.net[i].code = "asset-invalid-content" => run.errPath = run.net[i].path
           /\ run.net[i].code # "asset-invalid-content" => run.errPath = ""

\* the first of two stageable assets failed with asset-invalid-content: the
\* second was never staged
FirstStageFailedWitness ==
  /\ pc = "done" /\ run.cmd = "push" /\ run.failedAt = "stage"
  /\ Len(StageableBefore) = 2 /\ Len(run.net) = 1
  /\ run.net[1].code = "asset-invalid-content" /\ run.errPath = "img/b.png"

\* the second of two stageable assets failed after the first got its handle
SecondStageFailedWitness ==
  /\ pc = "done" /\ run.cmd = "push" /\ run.failedAt = "stage"
  /\ Len(run.net) = 2 /\ run.net[1].ok /\ run.errPath = "img/d.png"

InFlight == {i \in DOMAIN run.net : ~run.net[i].done}

\* C21: the staging requests of a push go out one at a time in scan order: a
\* request in flight is the only one and the last one sent, every request
\* before it has been answered with success, and the push transaction is sent
\* only after the staging request of every stageable asset has succeeded
StagingOneAtATime ==
  run.cmd = "push" /\ run.net # <<>> =>
    LET stageable == StageableBefore IN
    /\ Cardinality(InFlight) <= 1
    /\ \A i \in StageRequests :
         /\ i <= Len(stageable) /\ run.net[i].path = stageable[i]
         /\ \A j \in 1..(i - 1) :
              run.net[j].kind = "stage" /\ run.net[j].done /\ run.net[j].ok
    /\ \A i \in PushRequests :
         /\ i = Len(stageable) + 1
         /\ \A j \in 1..(i - 1) :
              run.net[j].kind = "stage" /\ run.net[j].done /\ run.net[j].ok

\* the request for the second stageable asset is in flight, the first answered
SecondStageInFlightWitness ==
  /\ pc = "push_staging" /\ Len(run.net) = 2
  /\ run.net[1].done /\ run.net[1].path = "img/b.png"
  /\ ~run.net[2].done /\ run.net[2].path = "img/d.png"

\* the push transaction followed two staged assets
PushAfterTwoStagedWitness ==
  /\ pc = "done" /\ run.cmd = "push" /\ run.outcome = "pushed"
  /\ Len(run.net) = 3 /\ run.net[3].kind = "push" /\ Len(StageableBefore) = 2

\* C22: at every point of a pull or a push, and after it was killed or failed,
\* the metadata file holds the complete record it held before or the complete
\* record of the version the server served, never an empty or partial text
MetadataReplacedAtomically ==
  run.cmd \in {"pull", "push"} =>
    \/ metaFile = run.metaBefore
    \/ /\ metaFile.kind = "edn"
       /\ MetaNow.ok /\ MetaNow.version = VerName(run.served)
       /\ RecordedPaths(MetaNow) = BundlePaths

Entries(p) == Range(PathEntries(p))
LastEntry(p) == PathEntries(p)[Len(PathEntries(p))]
WalkedWithData == {fnOut.assets[i].path : i \in DOMAIN fnOut.assets}
WalkedPathsOnly == Range(fnOut.paths)
YieldedOnce ==
  /\ \A i, j \in DOMAIN fnOut.assets : fnOut.assets[i].path = fnOut.assets[j].path => i = j
  /\ \A i, j \in DOMAIN fnOut.paths : fnOut.paths[i] = fnOut.paths[j] => i = j

\* C23 as stated: the scanners yield no path with an entry .flex-cli and no
\* file named .DS_Store, at any depth, and every other file once
ScanSkipsJunkFilesOnly ==
  fnOut.fn = "walk" =>
    LET other == {p \in DOMAIN fnIn.fs :
                    ".flex-cli" \notin Entries(p) /\ LastEntry(p) # ".DS_Store"}
    IN WalkedWithData = other /\ WalkedPathsOnly = other /\ YieldedOnce

\* C23: the scanners yield no path with an entry named .flex-cli or .DS_Store,
\* file or directory, at any depth, and every other file exactly once, with
\* its path relative to the root
ScanSkipsReservedEntries ==
  fnOut.fn = "walk" =>
    LET other == {p \in DOMAIN fnIn.fs :
                    ".flex-cli" \notin Entries(p) /\ ".DS_Store" \notin Entries(p)}
    IN WalkedWithData = other /\ WalkedPathsOnly = other /\ YieldedOnce

\* a directory with the metadata file, a nested .DS_Store file and asset files
\* at two depths was scanned
ScanWitness ==
  /\ fnOut.fn = "walk"
  /\ {".flex-cli/asset-meta.edn", "img/.DS_Store", "a.json", "img/b.png"} \subseteq DOMAIN fnIn.fs
  /\ {"a.json", "img/b.png"} \subseteq WalkedPathsOnly
  /\ Len(fnOut.assets) = Len(fnOut.paths)

PullRequests == {i \in DOMAIN run.net : run.net[i].kind = "pull"}

\* C24: an invocation sends at most one pull request, at most one staging
\* request per asset and at most one push transaction, a pull only the first
\* kind and a push only the other two; a request that failed is the last one
\* of the invocation, which ends with an error and a failure exit
NoRequestRepeated ==
  run.net # <<>> =>
    /\ Cardinality(PullRequests) <= 1 /\ Cardinality(PushRequests) <= 1
    /\ \A i, j \in StageRequests : run.net[i].path = run.net[j].path => i = j
    /\ run.cmd = "pull" => PullRequests = DOMAIN run.net
    /\ run.cmd = "push" => PullRequests = {}
    /\ \A i \in DOMAIN run.net :
         run.net[i].done /\ ~run.net[i].ok =>
           i = Len(run.net) /\ pc = "done" /\ run.outcome = "error"

\* the download of a pull failed: one request, no write, failure exit
FailedDownloadWitness ==
  /\ pc = "done" /\ run.cmd = "pull" /\ run.outcome = "error" /\ run.failedAt = "download"
  /\ Len(run.net) = 1 /\ ~run.net[1].ok /\ run.fwrites = {}

\* the push transaction failed after a staged asset: two requests, failure exit
FailedTransactionWitness ==
  /\ pc = "done" /\ run.cmd = "push" /\ run.outcome = "error" /\ run.failedAt = "push"
  /\ Len(run.net) = 2 /\ run.net[1].kind = "stage" /\ ~run.net[2].ok

\* C25: every changed asset a push posts inline as JSON, its path ending in
\* .json in any case, holds text that parses as JSON: it has passed the JSON
\* validation before the first request
InlineJsonWasValidated ==
  run.cmd = "push" /\ run.net # <<>> =>
    \A p \in ChangedBefore : JsonLike(p) => JsonParses(run.filesBefore[p])

\* the operations of a push transaction that refer to the handle h
ReferringOps(fields, h) ==
  {k \in 0..(Len(fields) - 1) :
     /\ HasField(fields, "staging-id-" \o NumToStr(k))
     /\ FieldValue(fields, "staging-id-" \o NumToStr(k)) = h}

\* C26: in the push transaction the upsert of every staged asset refers to
\* the handle its own staging request returned and carries no inline data,
\* whatever the handle is, and no other operation refers to that handle
StagedUpsertUsesOwnHandle ==
  run.cmd = "push" =>
    \A i \in PushRequests :
      \A j \in StageRequests :
        LET fields == run.net[i].fields
            ks == OpIndexes(fields, run.net[j].path)
        IN /\ Cardinality(ks) = 1
           /\ ReferringOps(fields, run.net[j].handle) = ks
           /\ \A k \in ks : ~HasField(fields, "data-raw-" \o NumToStr(k))

OpCount(fields) ==
  Cardinality({k \in 0..(Len(fields) - 1) : HasField(fields, "path-" \o NumToStr(k))})
OpIs(fields, k, op) == FieldValue(fields, "op-" \o NumToStr(k)) = Str(op)

\* C27: in the transaction of a push no path has more than one operation:
\* every changed path has one upsert, every path to delete one delete, no
\* path both; the operations are numbered 0..n-1 without a gap, no field name
\* occurs twice, and every upsert comes before every delete
TransactionOpsDistinct ==
  run.cmd = "push" =>
    \A i \in PushRequests :
      LET fields == run.net[i].fields
          changed == ChangedBefore
          deleted == IF run.prune THEN RemovedLocally ELSE {}
          upserts == UpsertPaths(fields)
          deletes == DeletePaths(fields)
          n == Cardinality(changed) + Cardinality(deleted)
      IN /\ OpCount(fields) = n
         /\ \A k \in 0..(n - 1) :
              HasField(fields, "path-" \o NumToStr(k)) /\ HasField(fields, "op-" \o NumToStr(k))
         /\ \A k, l \in DOMAIN fields : fields[k].name = fields[l].name => k = l
         /\ \A p \in Paths : Cardinality(OpIndexes(fields, p)) <= 1
         /\ upserts = changed
         /\ deletes = deleted
         /\ upserts \cap deletes = {}
         /\ \A k, l \in 0..(n - 1) :
              OpIs(fields, k, "upsert") /\ OpIs(fields, l, "delete") => k < l

\* an accepted transaction with an upsert and a delete
UpsertAndDeleteWitness ==
  /\ pc = "done" /\ run.cmd = "push" /\ run.outcome = "pushed"
  /\ UpsertPaths(LastRequest.fields) # {}
  /\ DeletePaths(LastRequest.fields) # {}

\* a transaction with four upserts
FourUpsertsWitness ==
  /\ run.cmd = "push" /\ PushRequests # {}
  /\ Cardinality(UpsertPaths(LastRequest.fields)) = 4

\* a path relative to the target directory that stays in it
Inside(p) == LET entries == PathEntries(p) IN entries[1] \notin {"..", ""}

\* C28: for every entry name the server delivers in the archive, a name with
\* a ".." entry or an absolute path included, every file a pull creates,
\* overwrites or deletes lies inside the target directory
PullStaysInside ==
  run.cmd = "pull" =>
    /\ \A p \in run.fwrites \cup run.fdeletes : Inside(p)
    /\ \A p \in DOMAIN files : Inside(p)

\* the archive named an entry assets/../a.json: the pull failed on it with
\* the library's error and wrote nothing for it
ParentEntryRefusedWitness ==
  /\ pc = "done" /\ run.cmd = "pull" /\ run.outcome = "error"
  /\ run.errPath = "assets/../img/b.png" /\ run.fwrites = {"a.json"}

\* the archive named an entry assets//img/b.png: it was written to img/b.png
\* under the directory and the pull succeeded
DoubledSeparatorWitness ==
  /\ pc = "pull_persist" /\ run.cmd = "pull"
  /\ \E i \in DOMAIN tmpZip.entries : tmpZip.entries[i].fileName = "assets//img/b.png"
  /\ "img/b.png" \in run.fwrites

\* C29: of two pulls that run at the same time neither extracts, truncates or
\* unlinks the temporary archive the other downloads
NoSharedArchive ==
  \A p \in Procs : procs[p].got \cup procs[p].over \cup procs[p].del \subseteq {p}

\* C30: when a pull has ended, as pulled, as up to date or with an error of
\* the download, the extraction, the prune or the metadata write, its
\* temporary archive no longer exists: it is removed before the failure exit
ArchiveRemovedAtEnd ==
  pc = "done" /\ run.cmd = "pull" /\ run.outcome \in {"pulled", "uptodate", "error"} =>
    ~tmpZip.exists

\* a pull downloaded its archive, failed while extracting it after a first
\* file and exited with an error
ExtractionFailedWitness ==
  /\ pc = "done" /\ run.cmd = "pull" /\ run.outcome = "error" /\ run.failedAt = "unzip"
  /\ run.net[1].ok /\ run.fwrites # {} /\ ~tmpZip.exists

\* a pull extracted its archive and reported the version
ArchiveGoneAfterPullWitness ==
  /\ pc = "done" /\ run.cmd = "pull" /\ run.outcome = "pulled"
  /\ run.net[1].ok /\ run.fwrites # {} /\ ~tmpZip.exists

====
